---- MODULE Spec2Model ----
(***************************************************************************)
(* Model of src/socket.js: the socket.io event handlers of the backend.    *)
(*                                                                         *)
(* Every handler is an async function.  Its code up to the first `await`   *)
(* runs atomically when the event arrives; the store operation it awaits   *)
(* and the code that follows it run later, interleaved with the other      *)
(* handlers.  `tasks` is the bag of handlers suspended at an await; one    *)
(* action of the model is one such atomic segment.                         *)
(*                                                                         *)
(* A store operation takes effect in the step in which its handler         *)
(* resumes: the code after an await changes no in-memory state, so the     *)
(* events that arrive between the two commute with it.  Store operations   *)
(* succeed, except a save() that the version key of the document rejects   *)
(* and the store operations of sendMessage and createUpdate, which may     *)
(* fail.                                                                   *)
(*                                                                         *)
(* The handlers are checked in groups, each with its specification:        *)
(* presence (Spec), settings (SpecSettings), reactions (SpecReact, and     *)
(* SpecReactSeq for handlers that run one after the other), messages       *)
(* (SpecMessage) and the refusals of events (SpecErrors).                  *)
(***************************************************************************)
EXTENDS Integers, Sequences, FiniteSets, Bags, TLC

VARIABLES
  sockState,          \* socket -> "new" | "open" | "closed"
  socketUserId,       \* socket.userId of every socket (NoUser: never set)
  onlineUsersMap,     \* the Map userId -> Set of socket ids, in insertion order
  dbIsOnline,         \* User.isOnline of every user document
  dbShowOnlineStatus, \* User.showOnlineStatus of every user document
  dbUserSettings,     \* UserSettings document of every user (a set of <<field, value>>)
  tasks,              \* bag of handlers suspended at an await
  onlineUsersEmitted, \* the last 'onlineUsers' event emitted (<<>>: none yet)
  events,             \* Event documents, indexed by update id
  reactionLog,        \* completed updateReaction saves, oldest first
  rooms,              \* socket -> the rooms it joined with joinUserRoom
  messages,           \* Message documents, indexed by message id
  outbox,             \* the events emitted, other than 'onlineUsers'
  consoleErrors       \* console.error lines of events refused without a user

vars == <<sockState, socketUserId, onlineUsersMap, dbIsOnline, dbShowOnlineStatus,
          dbUserSettings, tasks, onlineUsersEmitted, events, reactionLog,
          rooms, messages, outbox, consoleErrors>>

presenceVars == <<sockState, socketUserId, onlineUsersMap, dbIsOnline,
                  dbShowOnlineStatus, dbUserSettings, onlineUsersEmitted>>

reactionVars == <<events, reactionLog>>

messageVars == <<rooms, messages, outbox, consoleErrors>>

-----------------------------------------------------------------------------
(* Bounds and input domains *)

Users == {"u1", "u2"}
Sockets == {"s1", "s2"}
NoUser == "undefined"

\* At most this many handlers are suspended at an await at the same time.
MaxInFlight == 2

\* At most this many updates are created.
MaxUpdates == 1

\* At most this many updateReaction events are handled.
MaxReactions == 4

\* At most this many sendMessage events get to the store.
MaxMessages == 1

ReactionTypes == {"like", "dislike"}

\* The payloads of updateSettings that are enumerated: a partial settings
\* object is a set of <<field, value>> pairs.
SettingsPayloads ==
  { {<<"showOnlineStatus", TRUE>>},
    {<<"showOnlineStatus", FALSE>>},
    {} }

-----------------------------------------------------------------------------
(* The Map onlineUsersMap: a sequence of entries in insertion order *)

MapKeys(m) == { m[i].userId : i \in DOMAIN m }

MapHas(m, userId) == userId \in MapKeys(m)

MapGet(m, userId) ==
  IF MapHas(m, userId)
  THEN m[CHOOSE i \in DOMAIN m : m[i].userId = userId].sockets
  ELSE {}

\* onlineUsersMap.set(userId, new Set()) when absent, then .get(userId).add(socketId)
MapAdd(m, userId, socketId) ==
  IF MapHas(m, userId)
  THEN [i \in DOMAIN m |->
          IF m[i].userId = userId
          THEN [m[i] EXCEPT !.sockets = @ \cup {socketId}]
          ELSE m[i]]
  ELSE Append(m, [userId |-> userId, sockets |-> {socketId}])

\* onlineUsersMap.delete(userId)
MapDelete(m, userId) == SelectSeq(m, LAMBDA e : e.userId # userId)

\* The entries in which the disconnect scan finds socketId.
ScanHits(m, socketId) == { i \in DOMAIN m : socketId \in m[i].sockets }

\* The entry at which the disconnect scan stops (it breaks at the first hit).
ScanFirst(m, socketId) ==
  CHOOSE i \in ScanHits(m, socketId) : \A j \in ScanHits(m, socketId) : i <= j

\* DisconnectMap without the removal of an entry whose set became empty.
DisconnectMapKeepsEntry(m, socketId) ==
  IF ScanHits(m, socketId) = {}
  THEN m
  ELSE [m EXCEPT ![ScanFirst(m, socketId)].sockets = @ \ {socketId}]

\* The registry after the disconnect scan for socketId.
DisconnectMap(m, socketId) ==
  IF ScanHits(m, socketId) = {}
  THEN m
  ELSE LET i == ScanFirst(m, socketId)
           left == m[i].sockets \ {socketId}
       IN IF left = {}
          THEN MapDelete(m, m[i].userId)
          ELSE [m EXCEPT ![i].sockets = left]

\* DisconnectedUserId without the test of socketSet.size: the owner of the
\* socket, whether or not it has other sockets.
DisconnectedUserIdOfAnySocket(m, socketId) ==
  IF ScanHits(m, socketId) = {}
  THEN NoUser
  ELSE m[ScanFirst(m, socketId)].userId

\* disconnectedUserId after the scan: the user whose last socket this was.
DisconnectedUserId(m, socketId) ==
  IF ScanHits(m, socketId) = {}
  THEN NoUser
  ELSE LET i == ScanFirst(m, socketId)
       IN IF m[i].sockets \ {socketId} = {} THEN m[i].userId ELSE NoUser

-----------------------------------------------------------------------------
(* Suspended handlers *)

InFlight == BagCardinality(tasks)

\* The number of suspended handlers that are at one of the given awaits.
InFlightAt(kinds) ==
  BagCardinality([t \in { x \in BagToSet(tasks) : x.kind \in kinds } |->
                    CopiesIn(t, tasks)])

Suspend(t) == tasks (+) SetToBag({t})

\* The handler t resumes and finishes.
Finish(t) == tasks (-) SetToBag({t})

\* The handler t resumes, and suspends again as n.
Continue(t, n) == (tasks (-) SetToBag({t})) (+) SetToBag({n})

\* emitOnlineUsers up to its await: the keys of the registry are read when it
\* is called; the User.find query is pending.
emitOnlineUsers(m) ==
  [kind |-> "emitOnlineUsers", onlineUserIds |-> MapKeys(m)]

\* UsersToShowAsOnline without the showOnlineStatus condition of the query.
UsersToShowAsOnlineUnfiltered(onlineUserIds, show) == onlineUserIds

\* The result of User.find({_id: {$in: onlineUserIds}, showOnlineStatus: true}).
UsersToShowAsOnline(onlineUserIds, show) ==
  { u \in onlineUserIds : show[u] }

\* $set of a partial settings object on a settings document.
SetFields(doc, payload) ==
  { f \in doc : \A g \in payload : g[1] # f[1] } \cup payload

\* typeof updatedSettings.showOnlineStatus === 'boolean'
HasShowOnlineStatus(payload) ==
  \E f \in payload : f[1] = "showOnlineStatus"

\* AuthenticatedAlways: the test of socket.userId left out.
AuthenticatedAlways(userId) == TRUE

\* socket.userId is set (the handlers return at `if (!socket.userId)`).
Authenticated(userId) == userId # NoUser

\* The console.error line of an event refused for a socket without a user.
Refused(s, event) == [socket |-> s, event |-> event]
-----------------------------------------------------------------------------
(* Presence handlers *)

\* io.on('connection'): a new socket; its handlers are registered.
connection(s) ==
  /\ sockState[s] = "new"
  /\ sockState' = [sockState EXCEPT ![s] = "open"]
  /\ UNCHANGED <<socketUserId, onlineUsersMap, dbIsOnline, dbShowOnlineStatus,
                 dbUserSettings, tasks, onlineUsersEmitted, reactionVars, messageVars>>

\* socket.on('userLogin') up to the await of User.findByIdAndUpdate.
userLogin(s, userId) ==
  /\ sockState[s] = "open"
  /\ InFlight < MaxInFlight
  /\ socketUserId' = [socketUserId EXCEPT ![s] = userId]
  /\ onlineUsersMap' = MapAdd(onlineUsersMap, userId, s)
  /\ tasks' = Suspend([kind |-> "userLogin", userId |-> userId])
  /\ UNCHANGED <<sockState, dbIsOnline, dbShowOnlineStatus, dbUserSettings,
                 onlineUsersEmitted, reactionVars, messageVars>>

\* userLogin after the await: the user is marked online, emitOnlineUsers is called.
userLoginResume(t) ==
  /\ t.kind = "userLogin"
  /\ dbIsOnline' = [dbIsOnline EXCEPT ![t.userId] = TRUE]
  /\ tasks' = Continue(t, emitOnlineUsers(onlineUsersMap))
  /\ UNCHANGED <<sockState, socketUserId, onlineUsersMap, dbShowOnlineStatus,
                 dbUserSettings, onlineUsersEmitted, reactionVars, messageVars>>

\* socket.on('userLogout') up to the await of User.findByIdAndUpdate.
userLogout(s, userId) ==
  /\ sockState[s] = "open"
  /\ InFlight < MaxInFlight
  /\ onlineUsersMap' = MapDelete(onlineUsersMap, userId)
  /\ tasks' = Suspend([kind |-> "userLogout", userId |-> userId])
  /\ UNCHANGED <<sockState, socketUserId, dbIsOnline, dbShowOnlineStatus,
                 dbUserSettings, onlineUsersEmitted, reactionVars, messageVars>>

\* userLogout after the await: the user is marked offline, emitOnlineUsers is called.
userLogoutResume(t) ==
  /\ t.kind = "userLogout"
  /\ dbIsOnline' = [dbIsOnline EXCEPT ![t.userId] = FALSE]
  /\ tasks' = Continue(t, emitOnlineUsers(onlineUsersMap))
  /\ UNCHANGED <<sockState, socketUserId, onlineUsersMap, dbShowOnlineStatus,
                 dbUserSettings, onlineUsersEmitted, reactionVars, messageVars>>

\* socket.on('disconnect') up to the await of User.findByIdAndUpdate, or to
\* its end when the socket was not the last one of a user.
disconnect(s) ==
  /\ sockState[s] = "open"
  /\ sockState' = [sockState EXCEPT ![s] = "closed"]
  /\ onlineUsersMap' = DisconnectMap(onlineUsersMap, s)
  /\ LET disconnectedUserId == DisconnectedUserId(onlineUsersMap, s)
     IN IF disconnectedUserId # NoUser
        THEN /\ InFlight < MaxInFlight
             /\ tasks' = Suspend([kind |-> "disconnect",
                                  userId |-> disconnectedUserId])
        ELSE UNCHANGED tasks
  /\ UNCHANGED <<socketUserId, dbIsOnline, dbShowOnlineStatus, dbUserSettings,
                 onlineUsersEmitted, reactionVars, messageVars>>

\* disconnect after the await: the user is marked offline, emitOnlineUsers is called.
disconnectResume(t) ==
  /\ t.kind = "disconnect"
  /\ dbIsOnline' = [dbIsOnline EXCEPT ![t.userId] = FALSE]
  /\ tasks' = Continue(t, emitOnlineUsers(onlineUsersMap))
  /\ UNCHANGED <<sockState, socketUserId, onlineUsersMap, dbShowOnlineStatus,
                 dbUserSettings, onlineUsersEmitted, reactionVars, messageVars>>

\* socket.on('updateSettings') up to the await of UserSettings.findOneAndUpdate.
updateSettings(s, updatedSettings) ==
  /\ sockState[s] = "open"
  /\ IF ~Authenticated(socketUserId[s])
     THEN /\ consoleErrors' = consoleErrors \cup {Refused(s, "updateSettings")}
          /\ UNCHANGED tasks
     ELSE /\ InFlight < MaxInFlight
          /\ tasks' = Suspend([kind |-> "updateSettings",
                               userId |-> socketUserId[s],
                               updatedSettings |-> updatedSettings])
          /\ UNCHANGED consoleErrors
  /\ UNCHANGED <<presenceVars, reactionVars, rooms, messages, outbox>>

\* updateSettings after the await: the UserSettings document is written; when
\* the payload carries a boolean showOnlineStatus, emitOnlineUsers is called.
updateSettingsResume(t) ==
  /\ t.kind = "updateSettings"
  /\ dbUserSettings' = [dbUserSettings EXCEPT
                          ![t.userId] = SetFields(@, t.updatedSettings)]
  /\ tasks' = IF HasShowOnlineStatus(t.updatedSettings)
              THEN Continue(t, emitOnlineUsers(onlineUsersMap))
              ELSE Finish(t)
  /\ UNCHANGED <<sockState, socketUserId, onlineUsersMap, dbIsOnline,
                 dbShowOnlineStatus, onlineUsersEmitted, reactionVars, messageVars>>

\* emitOnlineUsers after the await of User.find: io.emit('onlineUsers', ...).
emitOnlineUsersResume(t) ==
  /\ t.kind = "emitOnlineUsers"
  /\ onlineUsersEmitted' =
       << [users |-> UsersToShowAsOnline(t.onlineUserIds, dbShowOnlineStatus),
           onlineUserIds |-> t.onlineUserIds] >>
  /\ tasks' = Finish(t)
  /\ UNCHANGED <<sockState, socketUserId, onlineUsersMap, dbIsOnline,
                 dbShowOnlineStatus, dbUserSettings, reactionVars, messageVars>>

-----------------------------------------------------------------------------
(* Updates and reactions *)

\* An Event document as createUpdate persists it: no reactions, zero counts.
\* __v is the version key the document is stored with.
NewEvent == [reactions |-> <<>>, likes |-> 0, dislikes |-> 0, v |-> 0]

\* Max0 without the clamp.
Max0Unclamped(n) == n

\* Math.max(0, n)
Max0(n) == IF n > 0 THEN n ELSE 0

\* FindIndex that never finds the user's reaction.
FindIndexNotFound(reactions, userId) == 0

\* update.reactions.findIndex(r => r.user.toString() === userId), 0 for -1.
FindIndex(reactions, userId) ==
  IF \E i \in DOMAIN reactions : reactions[i].user = userId
  THEN CHOOSE i \in DOMAIN reactions :
         /\ reactions[i].user = userId
         /\ \A j \in DOMAIN reactions : reactions[j].user = userId => i <= j
  ELSE 0

\* Splice that removes nothing.
SpliceNothing(reactions, index) == reactions

\* reactions.splice(index, 1)
Splice(reactions, index) ==
  [i \in 1..(Len(reactions) - 1) |->
     IF i < index THEN reactions[i] ELSE reactions[i + 1]]

\* The body of the updateReaction handler between the load and the save: the
\* loaded document as the handler leaves it, and the array operation it made
\* (what save() sends to the store depends on it).
React(update, userId, reactionType) ==
  LET existingReactionIndex == FindIndex(update.reactions, userId) IN
  IF existingReactionIndex # 0
  THEN IF update.reactions[existingReactionIndex].type = reactionType
       THEN [op |-> "splice", index |-> existingReactionIndex,
             update |->
               [update EXCEPT
                  !.reactions = Splice(@, existingReactionIndex),
                  !.likes = IF reactionType = "like" THEN Max0(@ - 1) ELSE @,
                  !.dislikes = IF reactionType = "like" THEN @ ELSE Max0(@ - 1)]]
       ELSE [op |-> "set", index |-> existingReactionIndex,
             update |->
               [update EXCEPT
                  !.reactions[existingReactionIndex].type = reactionType,
                  !.likes = IF reactionType = "like" THEN @ + 1 ELSE Max0(@ - 1),
                  !.dislikes = IF reactionType = "like" THEN Max0(@ - 1) ELSE @ + 1]]
  ELSE [op |-> "push", index |-> Len(update.reactions) + 1,
        update |->
          [update EXCEPT
             !.reactions = Append(@, [user |-> userId, type |-> reactionType]),
             !.likes = IF reactionType = "like" THEN @ + 1 ELSE @,
             !.dislikes = IF reactionType = "like" THEN @ ELSE @ + 1]]

\* update.save() checks the version key of the stored document when the array
\* was replaced (splice) or an element was set in place; a push does not.
SaveAccepted(stored, loaded, op) ==
  op = "push" \/ stored.v = loaded.v

\* update.save(): the stored document after the save of a loaded document that
\* the handler changed to `update`.  save() sends the changed paths only: the
\* pushed element, the replaced array or the changed element, and the counts
\* whose value differs from the loaded one; a push or a replaced array
\* increments the version key.
SaveUpdate(stored, loaded, update, op, index) ==
  [reactions |->
     CASE op = "push" -> Append(stored.reactions, update.reactions[index])
       [] op = "splice" -> update.reactions
       [] op = "set" ->
            [stored.reactions EXCEPT ![index].type = update.reactions[index].type],
   likes |-> IF update.likes # loaded.likes THEN update.likes ELSE stored.likes,
   dislikes |->
     IF update.dislikes # loaded.dislikes THEN update.dislikes ELSE stored.dislikes,
   v |-> IF op = "set" THEN stored.v ELSE stored.v + 1]

\* The sockets io.emit reaches: every connected socket.
Connected == { s \in Sockets : sockState[s] = "open" }

\* The sockets io.to(room) reaches: the connected sockets that joined the room.
InRoom(room) == { s \in Connected : room \in rooms[s] }

\* UpdateNotFound emitted with io.emit instead of socket.emit.
UpdateNotFoundBroadcast(s) ==
  [event |-> "updateError", to |-> Connected, text |-> "Update not found"]

\* socket.emit('updateError', { message: 'Update not found' })
UpdateNotFound(s) ==
  [event |-> "updateError", to |-> {s}, text |-> "Update not found"]

\* socket.emit('updateError', { message: 'Failed to react to update' })
ReactionFailed(s) ==
  [event |-> "updateError", to |-> {s}, text |-> "Failed to react to update"]

\* updateReaction events handled so far: saved, failed at save() or answered
\* with not-found (the outbox tells one of each per socket), and the handlers
\* in flight.
ReactionsStarted ==
  Len(reactionLog)
    + InFlight
    + Cardinality({ s \in Sockets : ReactionFailed(s) \in outbox })
    + Cardinality({ s \in Sockets : UpdateNotFound(s) \in outbox })

\* socket.emit('messageError', { message: 'Failed to send message' })
MessageFailed(s) ==
  [event |-> "messageError", to |-> {s}, text |-> "Failed to send message"]

\* socket.emit('updateError', { message: 'Failed to create update' })
CreateFailed(s) ==
  [event |-> "updateError", to |-> {s}, text |-> "Failed to create update"]

\* createUpdate events handled so far: stored, on their way to the store, or
\* failed (the outbox tells one failure per socket).
UpdatesStarted ==
  Len(events)
    + InFlightAt({"createUpdate"})
    + Cardinality({ s \in Sockets : CreateFailed(s) \in outbox })

\* socket.on('createUpdate') up to the await of newUpdate.save().
createUpdate(s) ==
  /\ sockState[s] = "open"
  /\ IF ~Authenticated(socketUserId[s])
     THEN /\ consoleErrors' = consoleErrors \cup {Refused(s, "createUpdate")}
          /\ UNCHANGED tasks
     ELSE /\ InFlight < MaxInFlight
          /\ UpdatesStarted < MaxUpdates
          /\ tasks' = Suspend([kind |-> "createUpdate", socket |-> s])
          /\ UNCHANGED consoleErrors
  /\ UNCHANGED <<presenceVars, reactionVars, rooms, messages, outbox>>

\* createUpdate from the outcome of newUpdate.save() to the await of
\* populate, or to the catch when the save failed.
createUpdateSaved(t, ok) ==
  /\ t.kind = "createUpdate"
  /\ IF ok
     THEN /\ events' = Append(events, NewEvent)
          /\ tasks' = Continue(t, [kind |-> "createUpdatePopulate",
                                   socket |-> t.socket,
                                   updateId |-> Len(events) + 1])
          /\ UNCHANGED outbox
     ELSE /\ outbox' = outbox \cup {CreateFailed(t.socket)}
          /\ tasks' = Finish(t)
          /\ UNCHANGED events
  /\ UNCHANGED <<presenceVars, reactionLog, rooms, messages, consoleErrors>>

\* createUpdate from the outcome of populate to the end of the handler: the
\* update is broadcast, or the failure is caught and reported.
createUpdatePopulated(t, ok) ==
  /\ t.kind = "createUpdatePopulate"
  /\ outbox' = outbox \cup
       IF ok
       THEN { [event |-> "newUpdate", to |-> Connected, update |-> t.updateId] }
       ELSE { CreateFailed(t.socket) }
  /\ tasks' = Finish(t)
  /\ UNCHANGED <<presenceVars, reactionVars, rooms, messages, consoleErrors>>

\* socket.on('updateReaction') up to the await of Event.findById.
updateReaction(s, updateId, reactionType) ==
  /\ sockState[s] = "open"
  /\ IF ~Authenticated(socketUserId[s])
     THEN /\ consoleErrors' = consoleErrors \cup {Refused(s, "updateReaction")}
          /\ UNCHANGED tasks
     ELSE /\ InFlight < MaxInFlight
          /\ ReactionsStarted < MaxReactions
          /\ tasks' = Suspend([kind |-> "updateReaction", socket |-> s,
                               updateId |-> updateId, reactionType |-> reactionType])
          /\ UNCHANGED consoleErrors
  /\ UNCHANGED <<presenceVars, reactionVars, rooms, messages, outbox>>

\* updateReaction from the result of Event.findById to the await of save(),
\* or to the return when the update is not found.
updateReactionLoaded(t) ==
  /\ t.kind = "updateReaction"
  /\ IF t.updateId \notin DOMAIN events
     THEN /\ outbox' = outbox \cup {UpdateNotFound(t.socket)}
          /\ tasks' = Finish(t)
     ELSE /\ LET loaded == events[t.updateId]
                 r == React(loaded, socketUserId[t.socket], t.reactionType)
             IN tasks' = Continue(t, [kind |-> "updateReactionSave",
                                      socket |-> t.socket,
                                      userId |-> socketUserId[t.socket],
                                      updateId |-> t.updateId,
                                      reactionType |-> t.reactionType,
                                      loaded |-> loaded,
                                      update |-> r.update,
                                      op |-> r.op,
                                      index |-> r.index])
          /\ UNCHANGED outbox
  /\ UNCHANGED <<presenceVars, reactionVars, rooms, messages, consoleErrors>>

\* updateReaction from the outcome of save() to the end of the handler: the
\* update is broadcast, or the version error is caught and reported.
updateReactionSaved(t) ==
  /\ t.kind = "updateReactionSave"
  /\ LET stored == events[t.updateId] IN
     IF SaveAccepted(stored, t.loaded, t.op)
     THEN LET saved == SaveUpdate(stored, t.loaded, t.update, t.op, t.index) IN
          /\ events' = [events EXCEPT ![t.updateId] = saved]
          /\ reactionLog' = Append(reactionLog,
                                   [userId |-> t.userId,
                                    updateId |-> t.updateId,
                                    reactionType |-> t.reactionType,
                                    before |-> stored,
                                    after |-> saved])
          /\ outbox' = outbox \cup
               {[event |-> "updateReaction", to |-> Connected, update |-> t.updateId]}
     ELSE /\ outbox' = outbox \cup {ReactionFailed(t.socket)}
          /\ UNCHANGED <<events, reactionLog>>
  /\ tasks' = Finish(t)
  /\ UNCHANGED <<presenceVars, rooms, messages, consoleErrors>>

-----------------------------------------------------------------------------
(* Direct messages *)

\* sendMessage events that got past the test of socket.userId.
MessagesStarted ==
  Len(messages)
    + InFlightAt({"sendMessage"})

\* socket.on('joinUserRoom'): socket.join(userId).
joinUserRoom(s, userId) ==
  /\ sockState[s] = "open"
  /\ rooms' = [rooms EXCEPT ![s] = @ \cup {userId}]
  /\ UNCHANGED <<presenceVars, tasks, reactionVars, messages, outbox,
                 consoleErrors>>

\* socket.on('sendMessage') up to the await of newMessage.save().
sendMessage(s, recipientId) ==
  /\ sockState[s] = "open"
  /\ IF ~Authenticated(socketUserId[s])
     THEN /\ consoleErrors' = consoleErrors \cup {Refused(s, "sendMessage")}
          /\ UNCHANGED tasks
     ELSE /\ InFlight < MaxInFlight
          /\ MessagesStarted < MaxMessages
          /\ tasks' = Suspend([kind |-> "sendMessage", socket |-> s,
                               sender |-> socketUserId[s],
                               recipient |-> recipientId])
          /\ UNCHANGED consoleErrors
  /\ UNCHANGED <<presenceVars, reactionVars, rooms, messages, outbox>>

\* sendMessage from the outcome of newMessage.save() to the await of the
\* populate calls, or to the catch when the save failed.
sendMessageSaved(t, ok) ==
  /\ t.kind = "sendMessage"
  /\ IF ok
     THEN /\ messages' = Append(messages,
                                [sender |-> t.sender, recipient |-> t.recipient])
          /\ tasks' = Continue(t, [kind |-> "sendMessagePopulate",
                                   socket |-> t.socket,
                                   messageId |-> Len(messages) + 1,
                                   recipient |-> t.recipient])
          /\ UNCHANGED outbox
     ELSE /\ outbox' = outbox \cup {MessageFailed(t.socket)}
          /\ tasks' = Finish(t)
          /\ UNCHANGED messages
  /\ UNCHANGED <<presenceVars, reactionVars, rooms, consoleErrors>>

\* sendMessage from the outcome of the populate calls to the end of the
\* handler: the message goes to the room of the recipient and to the room of
\* socket.userId, or the failure is caught and reported.
sendMessagePopulated(t, ok) ==
  /\ t.kind = "sendMessagePopulate"
  /\ outbox' = outbox \cup
       IF ok
       THEN { [event |-> "newMessage", to |-> InRoom(t.recipient),
               message |-> t.messageId],
              [event |-> "messageSent", to |-> InRoom(socketUserId[t.socket]),
               message |-> t.messageId] }
       ELSE { MessageFailed(t.socket) }
  /\ tasks' = Finish(t)
  /\ UNCHANGED <<presenceVars, reactionVars, rooms, messages, consoleErrors>>

-----------------------------------------------------------------------------
(* Presence specification *)

InitPresence ==
  /\ sockState = [s \in Sockets |-> "new"]
  /\ socketUserId = [s \in Sockets |-> NoUser]
  /\ onlineUsersMap = <<>>
  /\ dbIsOnline = [u \in Users |-> FALSE]
  /\ dbShowOnlineStatus \in [Users -> BOOLEAN]
  /\ dbUserSettings = [u \in Users |-> {}]
  /\ tasks = EmptyBag
  /\ onlineUsersEmitted = <<>>
  /\ events = <<>>
  /\ reactionLog = <<>>
  /\ rooms = [s \in Sockets |-> {}]
  /\ messages = <<>>
  /\ outbox = {}
  /\ consoleErrors = {}

Init == InitPresence

\* Logins, logouts and disconnects of the sockets, in any interleaving.
Next ==
  \/ \E s \in Sockets : connection(s)
  \/ \E s \in Sockets, u \in Users : userLogin(s, u)
  \/ \E t \in BagToSet(tasks) : userLoginResume(t)
  \/ \E s \in Sockets, u \in Users : userLogout(s, u)
  \/ \E t \in BagToSet(tasks) : userLogoutResume(t)
  \/ \E s \in Sockets : disconnect(s)
  \/ \E t \in BagToSet(tasks) : disconnectResume(t)
  \/ \E t \in BagToSet(tasks) : emitOnlineUsersResume(t)

Spec == Init /\ [][Next]_vars

\* Logins and settings updates of the sockets, in any interleaving.
NextSettings ==
  \/ \E s \in Sockets : connection(s)
  \/ \E s \in Sockets, u \in Users : userLogin(s, u)
  \/ \E t \in BagToSet(tasks) : userLoginResume(t)
  \/ \E s \in Sockets, p \in SettingsPayloads : updateSettings(s, p)
  \/ \E t \in BagToSet(tasks) : updateSettingsResume(t)
  \/ \E t \in BagToSet(tasks) : emitOnlineUsersResume(t)

SpecSettings == Init /\ [][NextSettings]_vars
-----------------------------------------------------------------------------
(* Reaction specifications *)

SocketOrder == <<"s1", "s2">>

\* The registry after the sockets have logged in, in order, as the users f.
LoggedInMap(f) ==
  MapAdd(MapAdd(<<>>, f[SocketOrder[1]], SocketOrder[1]),
         f[SocketOrder[2]], SocketOrder[2])

\* Every socket is connected and has logged in, and the updates have been
\* created; the login and createUpdate handlers are done.
\* The user of the first socket is called u1: the handlers never look at the
\* name of a user, so the other choice is the same run with the names swapped.
InitReact ==
  /\ sockState = [s \in Sockets |-> "open"]
  /\ socketUserId \in { f \in [Sockets -> Users] : f[SocketOrder[1]] = "u1" }
  /\ onlineUsersMap = LoggedInMap(socketUserId)
  /\ dbIsOnline = [u \in Users |-> MapHas(onlineUsersMap, u)]
  /\ dbShowOnlineStatus = [u \in Users |-> TRUE]
  /\ dbUserSettings = [u \in Users |-> {}]
  /\ tasks = EmptyBag
  /\ onlineUsersEmitted =
       << [users |-> MapKeys(onlineUsersMap),
           onlineUserIds |-> MapKeys(onlineUsersMap)] >>
  /\ events = [i \in 1..MaxUpdates |-> NewEvent]
  /\ reactionLog = <<>>
  /\ rooms = [s \in Sockets |-> {}]
  /\ messages = <<>>
  /\ outbox = { [event |-> "newUpdate", to |-> Sockets, update |-> i] :
                 i \in 1..MaxUpdates }
  /\ consoleErrors = {}

\* updateReaction handlers of the sockets, in any interleaving.
NextReact ==
  \/ \E s \in Sockets, id \in DOMAIN events, rt \in ReactionTypes :
       updateReaction(s, id, rt)
  \/ \E t \in BagToSet(tasks) : updateReactionLoaded(t)
  \/ \E t \in BagToSet(tasks) : updateReactionSaved(t)

SpecReact == InitReact /\ [][NextReact]_vars

\* updateReaction handlers run one after the other: an event is handled only
\* when no handler is suspended.
NextReactSeq ==
  \/ \E s \in Sockets, id \in DOMAIN events, rt \in ReactionTypes :
       InFlight = 0 /\ updateReaction(s, id, rt)
  \/ \E t \in BagToSet(tasks) : updateReactionLoaded(t)
  \/ \E t \in BagToSet(tasks) : updateReactionSaved(t)

SpecReactSeq == InitReact /\ [][NextReactSeq]_vars
-----------------------------------------------------------------------------
(* Message and refusal specifications *)

\* The registry after the sockets with a user in f have logged in, in order.
RegistryOf(f) ==
  LET first == IF f[SocketOrder[1]] # NoUser
               THEN MapAdd(<<>>, f[SocketOrder[1]], SocketOrder[1])
               ELSE <<>>
  IN IF f[SocketOrder[2]] # NoUser
     THEN MapAdd(first, f[SocketOrder[2]], SocketOrder[2])
     ELSE first

\* Every socket is connected; some have logged in, and their login handlers
\* are done.  The first user to appear is called u1: the handlers never look
\* at the name of a user, so the other choice is the same run with the names
\* swapped.
InitMessage ==
  /\ sockState = [s \in Sockets |-> "open"]
  /\ socketUserId \in
       { f \in [Sockets -> Users \cup {NoUser}] :
           /\ f[SocketOrder[1]] # "u2"
           /\ f[SocketOrder[1]] = NoUser => f[SocketOrder[2]] # "u2" }
  /\ onlineUsersMap = RegistryOf(socketUserId)
  /\ dbIsOnline = [u \in Users |-> MapHas(onlineUsersMap, u)]
  /\ dbShowOnlineStatus = [u \in Users |-> TRUE]
  /\ dbUserSettings = [u \in Users |-> {}]
  /\ tasks = EmptyBag
  /\ onlineUsersEmitted =
       IF onlineUsersMap = <<>>
       THEN <<>>
       ELSE << [users |-> MapKeys(onlineUsersMap),
                onlineUserIds |-> MapKeys(onlineUsersMap)] >>
  /\ events = <<>>
  /\ reactionLog = <<>>
  /\ rooms = [s \in Sockets |-> {}]
  /\ messages = <<>>
  /\ outbox = {}
  /\ consoleErrors = {}

\* Room joins and sendMessage handlers of the sockets, in any interleaving.
NextMessage ==
  \/ \E s \in Sockets, u \in Users : joinUserRoom(s, u)
  \/ \E s \in Sockets, u \in Users : sendMessage(s, u)
  \/ \E t \in BagToSet(tasks), ok \in BOOLEAN : sendMessageSaved(t, ok)
  \/ \E t \in BagToSet(tasks), ok \in BOOLEAN : sendMessagePopulated(t, ok)

SpecMessage == InitMessage /\ [][NextMessage]_vars

\* createUpdate and updateReaction events of sockets with and without a
\* user, handled one after the other, for the ids of the stored updates and
\* for an id that no update has.
NextErrors ==
  \/ \E s \in Sockets : InFlight = 0 /\ createUpdate(s)
  \/ \E t \in BagToSet(tasks), ok \in BOOLEAN : createUpdateSaved(t, ok)
  \/ \E t \in BagToSet(tasks), ok \in BOOLEAN : createUpdatePopulated(t, ok)
  \/ \E s \in Sockets, id \in DOMAIN events \cup {MaxUpdates + 1},
          rt \in ReactionTypes :
       InFlight = 0 /\ updateReaction(s, id, rt)
  \/ \E t \in BagToSet(tasks) : updateReactionLoaded(t)
  \/ \E t \in BagToSet(tasks) : updateReactionSaved(t)

SpecErrors == InitMessage /\ [][NextErrors]_vars
-----------------------------------------------------------------------------
(* Properties of the presence registry *)

\* C1: a user has an entry in the registry iff the connection set stored for
\* the user is non-empty; no entry with an empty connection set is stored.
C1_EntryIffConnections ==
  /\ \A i \in DOMAIN onlineUsersMap : onlineUsersMap[i].sockets # {}
  /\ \A u \in Users :
       MapHas(onlineUsersMap, u) <=> MapGet(onlineUsersMap, u) # {}

\* A user's last socket has disconnected and the entry is gone, while another
\* user still has an entry.
C1_Witness ==
  \E s \in Sockets, u \in Users, w \in Users :
    /\ sockState[s] = "closed"
    /\ socketUserId[s] = u
    /\ ~MapHas(onlineUsersMap, u)
    /\ MapHas(onlineUsersMap, w)

OfflineWrites(bag, u) == CopiesIn([kind |-> "disconnect", userId |-> u], bag)

\* C2: when a socket of a user with two or more registered sockets
\* disconnects, the user stays in the registry and the handler neither writes
\* isOnline nor suspends at a write of it; a disconnect removes a user from
\* the registry only when the socket is the user's last one, and does so when
\* the socket is registered for no other user; the handler then suspends at
\* the write that marks the user offline, which sets isOnline to false when
\* it completes.
C2_OfflineOnlyAfterLastDisconnect ==
  [][ /\ \A s \in Sockets, u \in Users :
           (/\ sockState[s] = "open"
            /\ sockState'[s] = "closed"
            /\ s \in MapGet(onlineUsersMap, u))
           =>
           /\ Cardinality(MapGet(onlineUsersMap, u)) >= 2
                => /\ MapHas(onlineUsersMap', u)
                   /\ OfflineWrites(tasks', u) = OfflineWrites(tasks, u)
                   /\ dbIsOnline'[u] = dbIsOnline[u]
           /\ ~MapHas(onlineUsersMap', u)
                => /\ MapGet(onlineUsersMap, u) = {s}
                   /\ OfflineWrites(tasks', u) = OfflineWrites(tasks, u) + 1
           /\ (/\ MapGet(onlineUsersMap, u) = {s}
               /\ \A w \in Users \ {u} : s \notin MapGet(onlineUsersMap, w))
                => ~MapHas(onlineUsersMap', u)
      /\ \A u \in Users :
           OfflineWrites(tasks', u) < OfflineWrites(tasks, u)
             => dbIsOnline'[u] = FALSE
    ]_vars

\* Both sockets logged in as the same user; one has disconnected, the user is
\* still registered with the other and still marked online.
C2_Witness ==
  \E u \in Users, s1 \in Sockets, s2 \in Sockets :
    /\ s1 # s2
    /\ socketUserId[s1] = u /\ socketUserId[s2] = u
    /\ sockState[s1] = "closed" /\ sockState[s2] = "open"
    /\ MapGet(onlineUsersMap, u) = {s2}
    /\ dbIsOnline[u]
    /\ tasks = EmptyBag

\* C9: an emitted onlineUsers snapshot contains only users that were in the
\* registry when emitOnlineUsers read it and whose showOnlineStatus is true;
\* a user with showOnlineStatus false is in no emitted snapshot.
C9_SnapshotOnlyVisibleOnline ==
  \A i \in DOMAIN onlineUsersEmitted :
    /\ onlineUsersEmitted[i].users \subseteq onlineUsersEmitted[i].onlineUserIds
    /\ \A u \in onlineUsersEmitted[i].users : dbShowOnlineStatus[u]

\* A user with showOnlineStatus false is logged in and registered, and the
\* snapshot emitted was computed from a registry that held the user.
C9_Witness ==
  \E u \in Users, s \in Sockets :
    /\ ~dbShowOnlineStatus[u]
    /\ socketUserId[s] = u
    /\ MapHas(onlineUsersMap, u)
    /\ onlineUsersEmitted # <<>>
    /\ u \in onlineUsersEmitted[1].onlineUserIds
    /\ u \notin onlineUsersEmitted[1].users

\* C10: once the handlers of updateSettings events have completed, the last
\* snapshot emitted contains a registered user who has set showOnlineStatus
\* iff the value the user has set is true.
C10_SettingsDecideSnapshot ==
  \A u \in Users :
    (/\ tasks = EmptyBag
     /\ onlineUsersEmitted # <<>>
     /\ u \in onlineUsersEmitted[1].onlineUserIds
     /\ HasShowOnlineStatus(dbUserSettings[u]))
    => (u \in onlineUsersEmitted[1].users
          <=> <<"showOnlineStatus", TRUE>> \in dbUserSettings[u])

\* The users in whose connection set the socket is.
OwnersOf(m, socketId) ==
  { m[i].userId : i \in { j \in DOMAIN m : socketId \in m[j].sockets } }

\* C16: a socket is in the connection set of at most one user.
C16_OneOwnerPerSocket ==
  \A s \in Sockets : Cardinality(OwnersOf(onlineUsersMap, s)) <= 1

\* C17: a socket whose disconnect has been handled is in no user's
\* connection set.
C17_ClosedSocketUnregistered ==
  \A s \in Sockets :
    sockState[s] = "closed" => OwnersOf(onlineUsersMap, s) = {}

LogoutWrites(bag, u) == CopiesIn([kind |-> "userLogout", userId |-> u], bag)

\* C18: a userLogout for a user who is registered with two or more sockets
\* (so with one other than the socket that sent the event) leaves the user in
\* the registry.
C18_LogoutKeepsOtherConnections ==
  [][ \A u \in Users :
        (/\ LogoutWrites(tasks', u) > LogoutWrites(tasks, u)
         /\ Cardinality(MapGet(onlineUsersMap, u)) >= 2)
        => MapHas(onlineUsersMap', u)
    ]_vars

\* C19: when no handler is suspended, isOnline of every user equals the
\* user's membership in the registry.
C19_IsOnlineMatchesRegistry ==
  tasks = EmptyBag =>
    \A u \in Users : dbIsOnline[u] <=> MapHas(onlineUsersMap, u)

\* C20: when no handler and no broadcast is pending, the snapshot emitted
\* last is the set of registered users whose showOnlineStatus is true.
C20_LastSnapshotCurrent ==
  (tasks = EmptyBag /\ onlineUsersEmitted # <<>>) =>
    onlineUsersEmitted[1].users =
      { u \in MapKeys(onlineUsersMap) : dbShowOnlineStatus[u] }

-----------------------------------------------------------------------------
(* Properties of the reactions *)

CountOfType(reactions, type) ==
  Cardinality({ i \in DOMAIN reactions : reactions[i].type = type })

\* C3: the likes and dislikes fields of every update equal the numbers of its
\* reactions of type like and dislike.
C3_CountsMatchReactions ==
  \A id \in DOMAIN events :
    /\ events[id].likes = CountOfType(events[id].reactions, "like")
    /\ events[id].dislikes = CountOfType(events[id].reactions, "dislike")

\* C4: the reaction list of every update holds at most one reaction per user.
C4_OneReactionPerUser ==
  \A id \in DOMAIN events :
    \A i \in DOMAIN events[id].reactions, j \in DOMAIN events[id].reactions :
      events[id].reactions[i].user = events[id].reactions[j].user => i = j

\* C5: when two different users have each reacted once to an update without
\* reactions and both handlers have completed, the update holds both users'
\* reactions and its counts include both.
C5_BothReactionsKept ==
  \A id \in DOMAIN events :
    (/\ tasks = EmptyBag
     /\ Len(reactionLog) = 2
     /\ reactionLog[1].updateId = id /\ reactionLog[2].updateId = id
     /\ reactionLog[1].userId # reactionLog[2].userId)
    => /\ { events[id].reactions[i].user : i \in DOMAIN events[id].reactions }
            = { reactionLog[1].userId, reactionLog[2].userId }
       /\ events[id].likes + events[id].dislikes = 2

\* The reaction of a user in an update document, "none" without one.
ReactionOf(doc, userId) ==
  IF \E i \in DOMAIN doc.reactions : doc.reactions[i].user = userId
  THEN CHOOSE type \in ReactionTypes :
         \E i \in DOMAIN doc.reactions :
           doc.reactions[i].user = userId /\ doc.reactions[i].type = type
  ELSE "none"

\* The transition table of the reaction toggle: the resulting reaction and
\* the changes of likes, dislikes and the number of reactions.
TransitionTable(current, requested) ==
  IF current = "none"
  THEN [reaction |-> requested,
        likes |-> IF requested = "like" THEN 1 ELSE 0,
        dislikes |-> IF requested = "dislike" THEN 1 ELSE 0,
        size |-> 1]
  ELSE IF current = requested
  THEN [reaction |-> "none",
        likes |-> IF requested = "like" THEN -1 ELSE 0,
        dislikes |-> IF requested = "dislike" THEN -1 ELSE 0,
        size |-> -1]
  ELSE [reaction |-> requested,
        likes |-> IF requested = "like" THEN 1 ELSE -1,
        dislikes |-> IF requested = "dislike" THEN 1 ELSE -1,
        size |-> 0]

\* C6: every updateReaction that runs without interleaving changes the user's
\* reaction, likes, dislikes and the number of reactions as the transition
\* table says.
C6_TransitionTable ==
  \A i \in DOMAIN reactionLog :
    LET e == reactionLog[i]
        row == TransitionTable(ReactionOf(e.before, e.userId), e.reactionType)
    IN /\ ReactionOf(e.after, e.userId) = row.reaction
       /\ e.after.likes = e.before.likes + row.likes
       /\ e.after.dislikes = e.before.dislikes + row.dislikes
       /\ Len(e.after.reactions) = Len(e.before.reactions) + row.size

\* A first reaction, a switch to the other type and a removal have run.
C6_Witness ==
  \E i \in DOMAIN reactionLog, j \in DOMAIN reactionLog, k \in DOMAIN reactionLog :
    /\ ReactionOf(reactionLog[i].before, reactionLog[i].userId) = "none"
    /\ ReactionOf(reactionLog[j].before, reactionLog[j].userId) = "like"
    /\ reactionLog[j].reactionType = "dislike"
    /\ ReactionOf(reactionLog[k].before, reactionLog[k].userId) = "dislike"
    /\ reactionLog[k].reactionType = "dislike"

\* The entries i, i+1, i+2 of the log are three successive like reactions of
\* one user on one update, the first one made without a reaction of the user.
ThreeLikes(i) ==
  /\ i + 2 \in DOMAIN reactionLog
  /\ \A k \in i..(i + 2) :
       /\ reactionLog[k].userId = reactionLog[i].userId
       /\ reactionLog[k].updateId = reactionLog[i].updateId
       /\ reactionLog[k].reactionType = "like"
  /\ ReactionOf(reactionLog[i].before, reactionLog[i].userId) = "none"

\* C7: three successive like reactions of a user without a reaction leave the
\* user's reaction as like, none and like, and after the second one likes and
\* dislikes are what they were before the first.
C7_ToggleTwiceRestores ==
  \A i \in DOMAIN reactionLog :
    ThreeLikes(i) =>
      LET u == reactionLog[i].userId IN
      /\ ReactionOf(reactionLog[i].after, u) = "like"
      /\ ReactionOf(reactionLog[i + 1].after, u) = "none"
      /\ ReactionOf(reactionLog[i + 2].after, u) = "like"
      /\ reactionLog[i + 1].after.likes = reactionLog[i].before.likes
      /\ reactionLog[i + 1].after.dislikes = reactionLog[i].before.dislikes

\* Three such reactions have run on an update that another user has reacted to.
C7_Witness ==
  \E i \in DOMAIN reactionLog :
    /\ ThreeLikes(i)
    /\ reactionLog[i].before.reactions # <<>>

\* C8: likes and dislikes of every update are never negative.
C8_CountsNonNegative ==
  \A id \in DOMAIN events :
    events[id].likes >= 0 /\ events[id].dislikes >= 0

\* A removal has been saved for an update whose count was already 0: the
\* count stayed 0.
C8_Witness ==
  \E i \in DOMAIN reactionLog :
    /\ reactionLog[i].reactionType = "like"
    /\ ReactionOf(reactionLog[i].before, reactionLog[i].userId) = "like"
    /\ reactionLog[i].before.likes = 0
    /\ reactionLog[i].after.likes = 0

-----------------------------------------------------------------------------
(* Properties of the messages and of the refused events *)

\* The events of the outbox that carry a message.
Deliveries == { o \in outbox : o.event \in {"newMessage", "messageSent"} }

\* C11: a sendMessage event on a socket without a user persists no message
\* and emits neither newMessage nor messageSent: no handler of such a socket
\* gets to the store, every persisted message has a user as its sender, and
\* every newMessage and messageSent carries a persisted message.
C11_UnauthenticatedSendsNothing ==
  /\ \A t \in BagToSet(tasks) :
       t.kind \in {"sendMessage", "sendMessagePopulate"} =>
         socketUserId[t.socket] # NoUser
  /\ \A i \in DOMAIN messages : messages[i].sender \in Users
  /\ \A o \in Deliveries : o.message \in DOMAIN messages

\* A socket without a user has sent sendMessage and was refused, while the
\* message of a logged-in socket was persisted and delivered.
C11_Witness ==
  \E s \in Sockets :
    /\ socketUserId[s] = NoUser
    /\ [socket |-> s, event |-> "sendMessage"] \in consoleErrors
    /\ tasks = EmptyBag
    /\ messages # <<>>
    /\ Deliveries # {}

\* C13: newMessage reaches exactly the sockets registered for the recipient
\* and messageSent exactly the sockets registered for the sender; with no
\* socket registered for the recipient, newMessage reaches no socket.
C13_DeliveredToRegistry ==
  \A o \in Deliveries :
    o.to = MapGet(onlineUsersMap,
                  IF o.event = "newMessage"
                  THEN messages[o.message].recipient
                  ELSE messages[o.message].sender)

\* C14: newMessage and messageSent carry a persisted message; once the
\* handlers are done, every persisted message has its messageSent echo; a
\* messageError goes to one socket only.
C14_PersistedIffEchoed ==
  /\ \A o \in Deliveries : o.message \in DOMAIN messages
  /\ tasks = EmptyBag =>
       \A i \in DOMAIN messages :
         \E o \in outbox : o.event = "messageSent" /\ o.message = i
  /\ \A o \in outbox :
       o.event = "messageError" => \E s \in Sockets : o.to = {s}

\* The targeted error event of a refused event.
ErrorEventOf(event) ==
  IF event = "sendMessage" THEN "messageError" ELSE "updateError"

\* C12: an event refused for a socket without a user is answered with a
\* messageError or updateError emitted to that socket.
C12_RefusalReported ==
  \A r \in consoleErrors :
    \E o \in outbox : o.event = ErrorEventOf(r.event) /\ o.to = {r.socket}

\* C15: the step of an updateReaction handler whose updateId resolves to no
\* update emits updateError to the socket of the event only, changes no
\* update and no reaction, and emits no updateReaction broadcast.
C15_NotFoundOnlyReported ==
  [][ \A t \in BagToSet(tasks) :
        ( /\ t.kind = "updateReaction"
          /\ t.updateId \notin DOMAIN events
          /\ CopiesIn(t, tasks') < CopiesIn(t, tasks) ) =>
        /\ outbox' = outbox \cup
             {[event |-> "updateError", to |-> {t.socket},
               text |-> "Update not found"]}
        /\ UNCHANGED <<events, reactionLog>> ]_vars

\* A logged-in socket got the not-found error, with an update stored and a
\* reaction to it saved and broadcast.
C15_Witness ==
  /\ \E s \in Sockets :
       /\ socketUserId[s] # NoUser
       /\ [event |-> "updateError", to |-> {s}, text |-> "Update not found"]
            \in outbox
  /\ reactionLog # <<>>
  /\ tasks = EmptyBag
====
